---- MODULE Spec2Model ----
(***************************************************************************)
(* Model of src/script.js: the Blog record, the BlogManager collection and *)
(* its localStorage persistence.  Time is the millisecond wall clock read  *)
(* by Date.now() / new Date(); it is taken to be non-decreasing.  The      *)
(* BlogUI controller is modelled by its form mode, its tag filter and the  *)
(* list it rendered last; the text the user typed into the form is the     *)
(* input of the submit event.                                              *)
(***************************************************************************)
EXTENDS Integers, Sequences, FiniteSets

\* ---------------------------------------------------------------- bounds
StartTime == 999
MaxTicks == 1
MaxBlogs == 2

MaxTime == StartTime + MaxTicks

\* Arguments the callers pass: (title, content, tags)
Inputs ==
  { [title |-> "A",  content |-> "body1", tags |-> <<"x">>],
    [title |-> "B",  content |-> "body2", tags |-> <<"x", "y">>],
    [title |-> "A2", content |-> "body2", tags |-> <<>>],
    [title |-> "C",  content |-> "body1", tags |-> <<"y", "y">>] }

\* ids are millisecond timestamps; the range also holds ids of no entry
Ids == StartTime .. MaxTime

\* A JavaScript argument that is either undefined or a string
Undefined == [def |-> FALSE, str |-> ""]
Str(s) == [def |-> TRUE, str |-> s]
TagArgs == { Undefined, Str(""), Str("x"), Str("y") }

VARIABLES blogs, store, now, last,
          editId, cancelHidden, tagFilter, options, view, ev
vars == <<blogs, store, now, last,
          editId, cancelHidden, tagFilter, options, view, ev>>

\* the state of BlogUI and of the page elements it drives
ui == <<editId, cancelHidden, tagFilter, options, view, ev>>

\* ------------------------------------------------------------ class Blog
\* constructor(id, title, content, tags): two separate reads of the clock
Blog(id, title, content, tags, c, u) ==
  [id |-> id, title |-> title, content |-> content, tags |-> tags,
   createdDate |-> c, updatedDate |-> u]

BlogUpdateNoStamp(b, title, content, tags, t) ==
  [b EXCEPT !.title = title, !.content = content, !.tags = tags]

BlogUpdateKeepTags(b, title, content, tags, t) ==
  [b EXCEPT !.title = title, !.content = content, !.updatedDate = t]

\* Blog.update(title, content, tags): replaces the fields, stamps updatedDate
BlogUpdate(b, title, content, tags, t) ==
  [b EXCEPT !.title = title, !.content = content, !.tags = tags,
            !.updatedDate = t]

\* ------------------------------------------------------ array primitives
RECURSIVE Includes(_, _)
\* Array.prototype.includes on a tag array
Includes(arr, x) ==
  IF arr = <<>> THEN FALSE
  ELSE IF Head(arr) = x THEN TRUE ELSE Includes(Tail(arr), x)

RECURSIVE FindIndex(_, _, _)
\* index of the first blog from position i on whose id === id, 0 when none
FindIndex(s, id, i) ==
  IF i > Len(s) THEN 0
  ELSE IF s[i].id = id THEN i ELSE FindIndex(s, id, i + 1)

\* BlogManager.getBlog(id): Array.prototype.find, 0 stands for undefined
GetBlogIndex(s, id) == FindIndex(s, id, 1)

RECURSIVE InsertBlog(_, _)
\* place b behind every element that does not compare after it
InsertBlog(sorted, b) ==
  IF sorted = <<>> THEN <<b>>
  ELSE IF Head(sorted).updatedDate >= b.updatedDate
       THEN <<Head(sorted)>> \o InsertBlog(Tail(sorted), b)
       ELSE <<b>> \o sorted

RECURSIVE StableSort(_, _)
StableSort(acc, rest) ==
  IF rest = <<>> THEN acc
  ELSE StableSort(InsertBlog(acc, Head(rest)), Tail(rest))

SortBlogsNoSort(s) == s

\* BlogManager.sortBlogs: stable sort, comparator b.updatedDate - a.updatedDate
SortBlogs(s) == StableSort(<<>>, s)

\* ------------------------------------------------------- JSON and storage
ToISOStringSeconds(t) == [sec |-> t \div 1000, ms |-> 0]

\* Date.prototype.toJSON: the ISO text of a millisecond timestamp
ToISOString(t) == [sec |-> t \div 1000, ms |-> t % 1000]

\* new Date(isoString)
ParseDate(iso) == iso.sec * 1000 + iso.ms

\* JSON.stringify(this.blogs): the own fields of every Blog, dates as ISO text
JSONStringify(s) ==
  [i \in 1..Len(s) |->
     [id |-> s[i].id, title |-> s[i].title, content |-> s[i].content,
      tags |-> s[i].tags,
      createdDate |-> ToISOString(s[i].createdDate),
      updatedDate |-> ToISOString(s[i].updatedDate)]]

NoItem == [has |-> FALSE, json |-> <<>>]

\* BlogManager.saveToLocalStorage: the value written by setItem("blogs", ...)
SaveToLocalStorage(s) == [has |-> TRUE, json |-> JSONStringify(s)]

LoadFromLocalStorageSwapped(st) ==
  IF st.has
  THEN [i \in 1..Len(st.json) |->
          Blog(st.json[i].id, st.json[i].title, st.json[i].content,
               st.json[i].tags,
               ParseDate(st.json[i].updatedDate),
               ParseDate(st.json[i].createdDate))]
  ELSE <<>>

\* BlogManager.loadFromLocalStorage applied to a fresh manager (blogs = [])
LoadFromLocalStorage(st) ==
  IF st.has
  THEN [i \in 1..Len(st.json) |->
          Blog(st.json[i].id, st.json[i].title, st.json[i].content,
               st.json[i].tags,
               ParseDate(st.json[i].createdDate),
               ParseDate(st.json[i].updatedDate))]
  ELSE <<>>

\* ------------------------------------------------------------- queries
\* the falsy test `!tag` on an undefined-or-string argument
Falsy(tag) == ~tag.def \/ tag.str = ""

FilterByTagFirstOnly(s, tag) ==
  IF Falsy(tag) THEN s
  ELSE SelectSeq(s, LAMBDA b : b.tags # <<>> /\ Head(b.tags) = tag.str)

\* BlogManager.filterByTag(tag)
FilterByTag(s, tag) ==
  IF Falsy(tag) THEN s
  ELSE SelectSeq(s, LAMBDA b : Includes(b.tags, tag.str))

\* the UTF-16 code units of a tag, which Array.prototype.sort() without a
\* comparator orders strings by
CodeUnits(tag) ==
  CASE tag = "x" -> <<120>>
    [] tag = "y" -> <<121>>
    [] tag = "" -> <<>>
    [] OTHER -> <<122>>

RECURSIVE UnitsLess(_, _)
\* a sorts strictly before b in code unit order
UnitsLess(a, b) ==
  IF b = <<>> THEN FALSE
  ELSE IF a = <<>> THEN TRUE
  ELSE IF Head(a) # Head(b) THEN Head(a) < Head(b)
  ELSE UnitsLess(Tail(a), Tail(b))

RECURSIVE InsertTag(_, _)
InsertTag(sorted, t) ==
  IF sorted = <<>> THEN <<t>>
  ELSE IF UnitsLess(CodeUnits(t), CodeUnits(Head(sorted)))
       THEN <<t>> \o sorted
       ELSE <<Head(sorted)>> \o InsertTag(Tail(sorted), t)

RECURSIVE SortTags(_, _)
\* Array.from(tagsSet).sort()
SortTags(acc, rest) ==
  IF rest = <<>> THEN acc
  ELSE SortTags(InsertTag(acc, Head(rest)), Tail(rest))

RECURSIVE AddTags(_, _)
\* blog.tags.forEach(tag => tagsSet.add(tag)): a Set keeps insertion order
\* and ignores a value it already holds
AddTags(acc, tags) ==
  IF tags = <<>> THEN acc
  ELSE AddTags(IF Includes(acc, Head(tags)) THEN acc
               ELSE Append(acc, Head(tags)), Tail(tags))

RECURSIVE PushTags(_, _)
PushTags(acc, s) ==
  IF s = <<>> THEN acc ELSE PushTags(acc \o Head(s).tags, Tail(s))

RECURSIVE CollectTags(_, _)
\* this.blogs.forEach(blog => ...) over the whole collection
CollectTags(acc, s) ==
  IF s = <<>> THEN acc
  ELSE CollectTags(AddTags(acc, Head(s).tags), Tail(s))

GetAllTagsNoSet(s) == SortTags(<<>>, PushTags(<<>>, s))

\* BlogManager.getAllTags()
GetAllTags(s) == SortTags(<<>>, CollectTags(<<>>, s))

DeleteFilterFirst(s, id) ==
  LET i == GetBlogIndex(s, id)
  IN IF i = 0 THEN s ELSE SubSeq(s, 1, i - 1) \o SubSeq(s, i + 1, Len(s))

\* the filter of BlogManager.deleteBlog: keeps the blogs whose id !== id
DeleteFilter(s, id) == SelectSeq(s, LAMBDA b : b.id # id)

\* ------------------------------------------------------- return values
RetUndefined == [kind |-> "undefined", val |-> <<>>]
RetBlog(b) == [kind |-> "blog", val |-> <<b>>]
RetList(s) == [kind |-> "list", val |-> s]
RetTags(t) == [kind |-> "tags", val |-> t]

NoInput == [title |-> "", content |-> "", tags |-> <<>>]

\* the call made last: its name, arguments, return value, and whether it
\* called localStorage.setItem
Call(op, id, inp, tag, ret, wrote) ==
  [op |-> op, id |-> id, inp |-> inp, tag |-> tag, ret |-> ret,
   wrote |-> wrote]

\* the page as index.html delivers it: no edit id, cancel hidden, the "all"
\* option selected
FreshDOM == [editId |-> <<>>, cancelHidden |-> TRUE, tagFilter |-> ""]

\* the last event the controller handled
Event(name, id, ok) == [name |-> name, id |-> id, ok |-> ok]

\* ------------------------------------------------------------- actions
Init ==
  /\ blogs = <<>>
  /\ store = NoItem
  /\ now = StartTime
  /\ last = Call("construct", 0, NoInput, Undefined, RetUndefined, FALSE)
  /\ editId = FreshDOM.editId
  /\ cancelHidden = FreshDOM.cancelHidden
  /\ tagFilter = FreshDOM.tagFilter
  /\ options = <<>>
  /\ view = <<>>
  /\ ev = Event("construct", 0, TRUE)

\* the wall clock advances between two calls
Tick ==
  /\ now < MaxTime
  /\ now' = now + 1
  /\ UNCHANGED <<blogs, store, last>>

\* new BlogManager(): a page load, restoring from the store
Restart ==
  /\ blogs' = LoadFromLocalStorage(store)
  /\ last' = Call("construct", 0, NoInput, Undefined, RetUndefined, FALSE)
  /\ UNCHANGED <<store, now>>

\* BlogManager.addBlog(title, content, tags): Date.now() for the id, then the
\* two new Date() of the constructor; the millisecond clock may or may not
\* step between two consecutive reads (d1, d2)
AddBlog(inp) ==
  /\ Len(blogs) < MaxBlogs
  /\ \E d1, d2 \in {0, 1} :
       LET id == now
           c  == now + d1
           u  == c + d2
           blog == Blog(id, inp.title, inp.content, inp.tags, c, u)
           sorted == SortBlogs(Append(blogs, blog))
       IN /\ u <= MaxTime
          /\ blogs' = sorted
          /\ store' = SaveToLocalStorage(sorted)
          /\ now' = u
          /\ last' = Call("addBlog", id, inp, Undefined, RetBlog(blog), TRUE)

UpdateBlogAlwaysSave(id, inp) ==
  LET i == GetBlogIndex(blogs, id)
      blog == BlogUpdate(blogs[i], inp.title, inp.content, inp.tags, now)
      sorted == IF i # 0 THEN SortBlogs([blogs EXCEPT ![i] = blog]) ELSE blogs
  IN /\ blogs' = sorted
     /\ store' = SaveToLocalStorage(sorted)
     /\ last' = Call("updateBlog", id, inp, Undefined,
                     IF i # 0 THEN RetBlog(blog) ELSE RetUndefined, TRUE)
     /\ UNCHANGED now

\* BlogManager.updateBlog(id, title, content, tags)
UpdateBlog(id, inp) ==
  LET i == GetBlogIndex(blogs, id)
  IN IF i # 0
     THEN LET blog == BlogUpdate(blogs[i], inp.title, inp.content,
                                 inp.tags, now)
              sorted == SortBlogs([blogs EXCEPT ![i] = blog])
          IN /\ blogs' = sorted
             /\ store' = SaveToLocalStorage(sorted)
             /\ last' = Call("updateBlog", id, inp, Undefined, RetBlog(blog), TRUE)
             /\ UNCHANGED now
     ELSE /\ last' = Call("updateBlog", id, inp, Undefined, RetUndefined, FALSE)
          /\ UNCHANGED <<blogs, store, now>>

DeleteBlogSaveFirst(id) ==
  LET kept == DeleteFilter(blogs, id)
  IN /\ store' = SaveToLocalStorage(blogs)
     /\ blogs' = kept
     /\ last' = Call("deleteBlog", id, NoInput, Undefined, RetUndefined, TRUE)
     /\ UNCHANGED now

\* BlogManager.deleteBlog(id)
DeleteBlog(id) ==
  LET kept == DeleteFilter(blogs, id)
  IN /\ blogs' = kept
     /\ store' = SaveToLocalStorage(kept)
     /\ last' = Call("deleteBlog", id, NoInput, Undefined, RetUndefined, TRUE)
     /\ UNCHANGED now

\* a call of BlogManager.filterByTag(tag)
FilterByTagCall(tag) ==
  /\ last' = Call("filterByTag", 0, NoInput, tag, RetList(FilterByTag(blogs, tag)),
                  FALSE)
  /\ UNCHANGED <<blogs, store, now>>

\* a call of BlogManager.getAllTags()
GetAllTagsCall ==
  /\ last' = Call("getAllTags", 0, NoInput, Undefined,
                  RetTags(GetAllTags(blogs)), FALSE)
  /\ UNCHANGED <<blogs, store, now>>

\* calls made on the BlogManager alone; the page is left as it is
Next ==
  \/ Tick /\ UNCHANGED ui
  \/ Restart /\ UNCHANGED ui
  \/ \E inp \in Inputs : AddBlog(inp) /\ UNCHANGED ui
  \/ \E id \in Ids, inp \in Inputs : UpdateBlog(id, inp) /\ UNCHANGED ui
  \/ \E id \in Ids : DeleteBlog(id) /\ UNCHANGED ui
  \/ \E tag \in TagArgs : FilterByTagCall(tag) /\ UNCHANGED ui
  \/ GetAllTagsCall /\ UNCHANGED ui

Spec == Init /\ [][Next]_vars

\* ----------------------------------------------------------- class BlogUI
\* the text of an input field: a core without surrounding whitespace, and
\* the number of whitespace characters before and after it
Raw(lead, core, trail) == [lead |-> lead, core |-> core, trail |-> trail]

\* String.prototype.trim
Trim(r) == r.core

\* what the user may have typed when the form is submitted; tags is the
\* text of the tags field cut at its commas
FormInputs ==
  { [title |-> Raw(0, "A", 0), content |-> Raw(0, "body1", 0),
     tags |-> <<Raw(0, "x", 0)>>],
    [title |-> Raw(1, "B", 1), content |-> Raw(0, "body2", 1),
     tags |-> <<Raw(0, "x", 0), Raw(1, "y", 0), Raw(1, "", 0)>>],
    [title |-> Raw(0, "A2", 0), content |-> Raw(0, "body2", 0),
     tags |-> <<Raw(0, "", 0)>>],
    [title |-> Raw(2, "", 0), content |-> Raw(0, "body1", 0),
     tags |-> <<Raw(0, "x", 0)>>],
    [title |-> Raw(0, "A", 0), content |-> Raw(0, "", 0),
     tags |-> <<Raw(0, "", 0)>>] }

\* value.split(",").map(tag => tag.trim()).filter(tag => tag)
SplitTags(pieces) ==
  SelectSeq([i \in 1..Len(pieces) |-> Trim(pieces[i])], LAMBDA t : t # "")

RECURSIVE ToStr(_)
\* the decimal text written into the hidden edit-id field
ToStr(n) == IF n < 10 THEN <<n>> ELSE ToStr(n \div 10) \o <<n % 10>>

NaN == -1

RECURSIVE ParseDigits(_, _)
ParseDigits(acc, digits) ==
  IF digits = <<>> THEN acc
  ELSE ParseDigits(acc * 10 + Head(digits), Tail(digits))

\* parseInt(this.editIdInput.value)
ParseInt(text) == IF text = <<>> THEN NaN ELSE ParseDigits(0, text)

\* the test `if (editId)`: NaN and 0 are falsy
Truthy(n) == n # NaN /\ n # 0

NoCall == Call("none", 0, NoInput, Undefined, RetUndefined, FALSE)

\* Blog.getFormattedDate: date and time of updatedDate down to the minute
GetFormattedDate(t) == [minute |-> t \div 60000]

\* the list BlogUI.render writes into blog-list for the blogs to show
RenderList(s) ==
  [i \in 1..Len(s) |->
     [id |-> s[i].id, title |-> s[i].title,
      date |-> GetFormattedDate(s[i].updatedDate),
      tags |-> s[i].tags, content |-> s[i].content]]

\* BlogUI.render for a collection and a selected tag
Render(s, selectedTag) == RenderList(FilterByTag(s, Str(selectedTag)))

UpdateTagFilterKeep(s, currentValue) == currentValue

\* BlogUI.updateTagFilter: the value of the select after its options were
\* rebuilt from getAllTags
UpdateTagFilter(s, currentValue) ==
  IF Includes(GetAllTags(s), currentValue) THEN currentValue ELSE ""

\* updateTagFilter() then render(), on the collection after the call
RefreshPage ==
  /\ options' = GetAllTags(blogs')
  /\ tagFilter' = UpdateTagFilter(blogs', tagFilter)
  /\ view' = Render(blogs', tagFilter')

\* BlogUI.resetForm
ResetForm ==
  /\ editId' = <<>>
  /\ cancelHidden' = TRUE

HandleSubmitTitleOnly(f) ==
  LET title == Trim(f.title)
      content == Trim(f.content)
      tags == SplitTags(f.tags)
      id == ParseInt(editId)
      inp == [title |-> title, content |-> content, tags |-> tags]
  IN IF title # ""
     THEN /\ IF Truthy(id) THEN UpdateBlog(id, inp) ELSE AddBlog(inp)
          /\ ResetForm
          /\ RefreshPage
          /\ ev' = Event("submit", IF Truthy(id) THEN id ELSE 0, TRUE)
     ELSE /\ last' = NoCall
          /\ ev' = Event("submit", IF Truthy(id) THEN id ELSE 0, FALSE)
          /\ UNCHANGED <<blogs, store, now, editId, cancelHidden,
                         tagFilter, options, view>>

HandleSubmitAlwaysAdd(f) ==
  LET title == Trim(f.title)
      content == Trim(f.content)
      tags == SplitTags(f.tags)
      id == ParseInt(editId)
      inp == [title |-> title, content |-> content, tags |-> tags]
  IN IF title # "" /\ content # ""
     THEN /\ AddBlog(inp)
          /\ ResetForm
          /\ RefreshPage
          /\ ev' = Event("submit", IF Truthy(id) THEN id ELSE 0, TRUE)
     ELSE /\ last' = NoCall
          /\ ev' = Event("submit", IF Truthy(id) THEN id ELSE 0, FALSE)
          /\ UNCHANGED <<blogs, store, now, editId, cancelHidden,
                         tagFilter, options, view>>

HandleSubmitUpsert(f) ==
  LET title == Trim(f.title)
      content == Trim(f.content)
      tags == SplitTags(f.tags)
      id == ParseInt(editId)
      inp == [title |-> title, content |-> content, tags |-> tags]
  IN IF title # "" /\ content # ""
     THEN /\ IF Truthy(id) /\ GetBlogIndex(blogs, id) # 0
             THEN UpdateBlog(id, inp) ELSE AddBlog(inp)
          /\ ResetForm
          /\ RefreshPage
          /\ ev' = Event("submit", IF Truthy(id) THEN id ELSE 0, TRUE)
     ELSE /\ last' = NoCall
          /\ ev' = Event("submit", IF Truthy(id) THEN id ELSE 0, FALSE)
          /\ UNCHANGED <<blogs, store, now, editId, cancelHidden,
                         tagFilter, options, view>>

\* BlogUI.handleSubmit
HandleSubmit(f) ==
  LET title == Trim(f.title)
      content == Trim(f.content)
      tags == SplitTags(f.tags)
      id == ParseInt(editId)
      inp == [title |-> title, content |-> content, tags |-> tags]
  IN IF title # "" /\ content # ""
     THEN /\ IF Truthy(id) THEN UpdateBlog(id, inp) ELSE AddBlog(inp)
          /\ ResetForm
          /\ RefreshPage
          /\ ev' = Event("submit", IF Truthy(id) THEN id ELSE 0, TRUE)
     ELSE /\ last' = NoCall
          /\ ev' = Event("submit", IF Truthy(id) THEN id ELSE 0, FALSE)
          /\ UNCHANGED <<blogs, store, now, editId, cancelHidden,
                         tagFilter, options, view>>

EditBlogNoGuard(id) ==
  LET i == GetBlogIndex(blogs, id)
  IN /\ editId' = ToStr(id)
     /\ cancelHidden' = FALSE
     /\ last' = NoCall
     /\ ev' = Event("editBlog", id, i # 0)
     /\ UNCHANGED <<blogs, store, now, tagFilter, options, view>>

\* BlogUI.editBlog(id)
EditBlog(id) ==
  LET i == GetBlogIndex(blogs, id)
  IN /\ IF i # 0
        THEN /\ editId' = ToStr(blogs[i].id)
             /\ cancelHidden' = FALSE
        ELSE UNCHANGED <<editId, cancelHidden>>
     /\ last' = NoCall
     /\ ev' = Event("editBlog", id, i # 0)
     /\ UNCHANGED <<blogs, store, now, tagFilter, options, view>>

\* a click on the cancel button
CancelClick ==
  /\ ResetForm
  /\ last' = NoCall
  /\ ev' = Event("cancel", 0, TRUE)
  /\ UNCHANGED <<blogs, store, now, tagFilter, options, view>>

UIDeleteBlogNoConfirm(id, confirmed) ==
  /\ DeleteBlog(id)
  /\ RefreshPage
  /\ ev' = Event("deleteBlog", id, confirmed)
  /\ UNCHANGED <<editId, cancelHidden>>

UIDeleteBlogNoRender(id, confirmed) ==
  IF confirmed
  THEN /\ DeleteBlog(id)
       /\ options' = GetAllTags(blogs')
       /\ tagFilter' = UpdateTagFilter(blogs', tagFilter)
       /\ ev' = Event("deleteBlog", id, TRUE)
       /\ UNCHANGED <<editId, cancelHidden, view>>
  ELSE /\ last' = NoCall
       /\ ev' = Event("deleteBlog", id, FALSE)
       /\ UNCHANGED <<blogs, store, now, editId, cancelHidden,
                      tagFilter, options, view>>

\* BlogUI.deleteBlog(id); confirmed is the answer to confirm()
UIDeleteBlog(id, confirmed) ==
  IF confirmed
  THEN /\ DeleteBlog(id)
       /\ RefreshPage
       /\ ev' = Event("deleteBlog", id, TRUE)
       /\ UNCHANGED <<editId, cancelHidden>>
  ELSE /\ last' = NoCall
       /\ ev' = Event("deleteBlog", id, FALSE)
       /\ UNCHANGED <<blogs, store, now, editId, cancelHidden,
                      tagFilter, options, view>>

\* the user selects an option of the tag filter: the change listener renders
TagFilterChange(tag) ==
  /\ tag = "" \/ Includes(options, tag)
  /\ tagFilter' = tag
  /\ view' = Render(blogs, tag)
  /\ last' = NoCall
  /\ ev' = Event("filterChange", 0, TRUE)
  /\ UNCHANGED <<blogs, store, now, editId, cancelHidden, options>>

\* a page load: new BlogManager() and new BlogUI(blogManager) on a fresh page
PageLoad ==
  /\ Restart
  /\ editId' = FreshDOM.editId
  /\ cancelHidden' = FreshDOM.cancelHidden
  /\ options' = GetAllTags(blogs')
  /\ tagFilter' = UpdateTagFilter(blogs', FreshDOM.tagFilter)
  /\ view' = Render(blogs', tagFilter')
  /\ ev' = Event("construct", 0, TRUE)

\* time passing between two events
Wait == Tick /\ UNCHANGED ui

\* the events of the page
NextUI ==
  \/ Wait
  \/ PageLoad
  \/ \E f \in FormInputs : HandleSubmit(f)
  \/ \E id \in Ids : EditBlog(id)
  \/ CancelClick
  \/ \E id \in Ids, confirmed \in BOOLEAN : UIDeleteBlog(id, confirmed)
  \/ \E tag \in {"", "x", "y"} : TagFilterChange(tag)

SpecUI == Init /\ [][NextUI]_vars

\* ------------------------------------------------------------ properties
Mutators == {"addBlog", "updateBlog", "deleteBlog"}

HasEntry(s, id) == \E i \in 1..Len(s) : s[i].id = id

HasTag(b, t) == \E k \in 1..Len(b.tags) : b.tags[k] = t

RemoveAt(s, i) == SubSeq(s, 1, i - 1) \o SubSeq(s, i + 1, Len(s))

\* sub consists of exactly the elements of s that satisfy P, in s's order
IsSelection(sub, s, P(_)) ==
  LET idx == {i \in 1..Len(s) : P(s[i])}
  IN /\ Len(sub) = Cardinality(idx)
     /\ \A i \in idx : sub[Cardinality({j \in idx : j <= i})] = s[i]

\* C1: after every add, update or delete (and after a restore) the entry
\* sequence is sorted by updatedDate descending: every adjacent pair has
\* the earlier updatedDate >= the later one.
C1_SortedDescending ==
  \A i \in 1..(Len(blogs) - 1) :
    blogs[i].updatedDate >= blogs[i + 1].updatedDate

\* an entry that is not newer than another one was updated later and now
\* stands in front of it
C1_Witness ==
  /\ last.op = "updateBlog" /\ last.ret.kind = "blog"
  /\ Len(blogs) >= 2
  /\ blogs[1] = last.ret.val[1]
  /\ blogs[1].createdDate <= blogs[2].createdDate
  /\ blogs[1].updatedDate > blogs[2].updatedDate

\* C2: persisting any reachable collection and restoring it from the same
\* store yields a sequence of the same length and order with equal id,
\* title, content, tags, createdDate and updatedDate; a collection that was
\* restored by a new manager serializes back to the stored value.
C2_RoundTrip ==
  /\ LoadFromLocalStorage(SaveToLocalStorage(blogs)) = blogs
  /\ (last.op = "construct" /\ store.has
        => store = SaveToLocalStorage(blogs))

\* a restored collection of two entries, one of them edited after creation
C2_Witness ==
  /\ last.op = "construct" /\ store.has
  /\ Len(blogs) >= 2
  /\ \E i \in 1..Len(blogs) : blogs[i].updatedDate > blogs[i].createdDate
  /\ \E i \in 1..Len(blogs) : Len(blogs[i].tags) = 2

\* C3 as stated: after any add, update or delete call the value under the
\* store key is the serialization of the complete in-memory sequence.
C3_StoreAlwaysHoldsState ==
  last.op \in Mutators => store = SaveToLocalStorage(blogs)

\* C3 amended: after any add, update or delete call the store holds the
\* serialization of the complete in-memory sequence, or it holds no value
\* at all, which happens only after an update of an unknown id on a
\* collection that is empty and was never persisted.
C3_StoreInSync ==
  last.op \in Mutators =>
    IF store.has
    THEN store = SaveToLocalStorage(blogs)
    ELSE blogs = <<>> /\ last.op = "updateBlog"
         /\ last.ret.kind = "undefined"

\* an update of an unknown id on a persisted collection of two entries
C3_Witness ==
  /\ last.op = "updateBlog" /\ last.ret.kind = "undefined"
  /\ store.has
  /\ Len(blogs) >= 2

\* C4: update of an id that matches no entry leaves the entry sequence
\* unchanged, returns not-found and performs no write to the store.
C4_UpdateUnknown ==
  [][ LET id == last'.id
          inp == last'.inp
      IN
        (last'.op = "updateBlog" /\ UpdateBlog(id, inp)
           /\ ~HasEntry(blogs, id))
          => /\ blogs' = blogs
             /\ store' = store
             /\ last'.ret.kind = "undefined"
             /\ ~last'.wrote ]_vars

\* update of an unknown id on a non-empty collection
C4_Witness ==
  /\ last.op = "updateBlog" /\ last.ret.kind = "undefined"
  /\ ~last.wrote
  /\ Len(blogs) >= 1
  /\ ~HasEntry(blogs, last.id)

\* C5: delete(id) removes exactly the entries whose id equals id and keeps
\* every other entry, its fields and the relative order; with no such entry
\* the collection is unchanged, nothing is raised, and the store is written.
C5_DeleteFrame ==
  [][ LET id == last'.id
      IN
        (last'.op = "deleteBlog" /\ DeleteBlog(id))
          => /\ IsSelection(blogs', blogs, LAMBDA b : b.id # id)
             /\ ~HasEntry(blogs', id)
             /\ (~HasEntry(blogs, id) => blogs' = blogs)
             /\ last'.ret.kind = "undefined"
             /\ last'.wrote
             /\ store' = SaveToLocalStorage(blogs') ]_vars

\* a delete that left at least one entry in the persisted collection
C5_Witness ==
  /\ last.op = "deleteBlog" /\ last.wrote
  /\ store.has
  /\ Len(blogs) >= 1
  /\ Len(store.json) = Len(blogs)

\* C6: no two entries of the collection have the same id.
C6_UniqueIds ==
  \A i, j \in 1..Len(blogs) : blogs[i].id = blogs[j].id => i = j

\* C7: every entry in every reachable state has updatedDate >= createdDate.
C7_UpdatedNotBeforeCreated ==
  \A i \in 1..Len(blogs) : blogs[i].updatedDate >= blogs[i].createdDate

\* a restored entry whose updatedDate is later than its createdDate
C7_Witness ==
  /\ last.op = "construct"
  /\ \E i \in 1..Len(blogs) : blogs[i].updatedDate > blogs[i].createdDate

\* C8: update of a present id replaces that entry's title, content and
\* tags with the given values, keeps its id and createdDate, leaves the
\* number of entries unchanged and leaves every other entry unchanged.
C8_UpdateFrame ==
  [][ LET id == last'.id
          inp == last'.inp
      IN
        (last'.op = "updateBlog" /\ UpdateBlog(id, inp)
           /\ HasEntry(blogs, id))
          => /\ Len(blogs') = Len(blogs)
             /\ \E i \in 1..Len(blogs), j \in 1..Len(blogs') :
                  /\ blogs[i].id = id
                  /\ blogs'[j].id = id
                  /\ blogs'[j].createdDate = blogs[i].createdDate
                  /\ blogs'[j].title = inp.title
                  /\ blogs'[j].content = inp.content
                  /\ blogs'[j].tags = inp.tags
                  /\ RemoveAt(blogs', j) = RemoveAt(blogs, i) ]_vars

\* an update that changed the title and tags of one of two entries
C8_Witness ==
  /\ last.op = "updateBlog" /\ last.ret.kind = "blog"
  /\ Len(blogs) >= 2
  /\ \E j \in 1..Len(blogs) :
       /\ blogs[j] = last.ret.val[1]
       /\ blogs[j].title = "A2"
       /\ blogs[j].tags = <<>>
       /\ blogs[j].updatedDate > blogs[j].createdDate

\* C9 as stated: after an entry is added and then updated, its updatedDate
\* is strictly greater than its createdDate.
C9_UpdatedStrictlyLater ==
  (last.op = "updateBlog" /\ last.ret.kind = "blog")
    => last.ret.val[1].updatedDate > last.ret.val[1].createdDate

\* C9 amended: after an entry is added and then updated, its updatedDate
\* is the clock reading of the update and is greater than or equal to its
\* createdDate; it is strictly greater whenever the clock has advanced
\* since the entry was constructed.
C9_UpdatedAtUpdateTime ==
  [][ LET id == last'.id
          inp == last'.inp
      IN
        (last'.op = "updateBlog" /\ UpdateBlog(id, inp)
           /\ HasEntry(blogs, id))
          => LET e == last'.ret.val[1]
             IN /\ e.id = id
                /\ e.updatedDate = now
                /\ e.updatedDate >= e.createdDate
                /\ (now > e.createdDate
                      => e.updatedDate > e.createdDate) ]_vars

\* an entry updated in the very millisecond it was constructed in
C9_Witness ==
  /\ last.op = "updateBlog" /\ last.ret.kind = "blog"
  /\ last.ret.val[1].updatedDate = last.ret.val[1].createdDate
  /\ last.ret.val[1].title = "A2"
  /\ HasEntry(blogs, last.id)

\* C10: filterByTag(tag) returns the whole collection in its order when tag
\* is empty or absent; for a non-empty tag it returns exactly the entries
\* whose tags contain a string equal to tag, in the collection's order.
C10_FilterByTag ==
  last.op = "filterByTag" =>
    IF ~last.tag.def \/ last.tag.str = ""
    THEN last.ret.val = blogs
    ELSE IsSelection(last.ret.val, blogs,
                     LAMBDA b : HasTag(b, last.tag.str))

\* a filter on "y" that keeps one of two entries, matched by its second tag
C10_Witness ==
  /\ last.op = "filterByTag" /\ last.tag = Str("y")
  /\ Len(blogs) = 2
  /\ Len(last.ret.val) = 1
  /\ last.ret.val[1].tags = <<"x", "y">>

\* the tags carried by at least one entry of s
TagsOf(s) == {t \in {"", "x", "y", "z"} : \E i \in 1..Len(s) : HasTag(s[i], t)}

\* C11: allTags() returns a sequence that contains every tag occurring in
\* any entry exactly once, contains nothing that is not a tag of some
\* entry, and is sorted ascending in code unit (lexicographic) order, also
\* when entries share tags or an entry repeats a tag.
C11_AllTags ==
  last.op = "getAllTags" =>
    LET r == last.ret.val
    IN /\ {r[k] : k \in 1..Len(r)} = TagsOf(blogs)
       /\ \A j, k \in 1..Len(r) : r[j] = r[k] => j = k
       /\ \A k \in 1..(Len(r) - 1) :
            UnitsLess(CodeUnits(r[k]), CodeUnits(r[k + 1]))

\* allTags() = <<"x", "y">> on two entries that share a tag, the entry with
\* the repeated tag "y" standing before the one with "x"
C11_Witness ==
  /\ last.op = "getAllTags"
  /\ last.ret.val = <<"x", "y">>
  /\ Len(blogs) = 2
  /\ blogs[1].tags = <<"y", "y">>
  /\ HasTag(blogs[2], "y") /\ HasTag(blogs[2], "x")

\* C15 as stated: immediately after add returns, or after update of an
\* existing id returns, the entry just added or updated is the first
\* element of the collection.
C15_TouchedIsFirst ==
  (last.op \in {"addBlog", "updateBlog"} /\ last.ret.kind = "blog")
    => blogs[1] = last.ret.val[1]

\* C15 amended: immediately after add returns, or after update of an
\* existing id returns, no entry has a later updatedDate than the entry
\* just added or updated, and that entry is preceded only by entries with
\* the same updatedDate; it is the first element whenever its updatedDate
\* is strictly later than every other entry's.
C15_TouchedIsNewest ==
  (last.op \in {"addBlog", "updateBlog"} /\ last.ret.kind = "blog")
    => LET e == last.ret.val[1]
       IN \E j \in 1..Len(blogs) :
            /\ blogs[j] = e
            /\ \A k \in 1..Len(blogs) : blogs[k].updatedDate <= e.updatedDate
            /\ \A k \in 1..(j - 1) : blogs[k].updatedDate = e.updatedDate
            /\ ((\A k \in 1..Len(blogs) :
                   k # j => blogs[k].updatedDate < e.updatedDate) => j = 1)

\* an entry added in the millisecond of another entry's last update stands
\* behind that entry
C15_Witness ==
  /\ last.op = "addBlog"
  /\ Len(blogs) = 2
  /\ blogs[2] = last.ret.val[1]
  /\ blogs[1] # blogs[2]
  /\ blogs[1].updatedDate = blogs[2].updatedDate

\* the form holds a title and a content that are non-empty after trimming
ValidForm(f) == f.title.core # "" /\ f.content.core # ""

\* the controller is in edit mode: a selected id is set
EditMode == editId # <<>>

\* C12: a submit whose title or content is empty after trimming is a no-op
\* in either mode: no manager call, collection and store unchanged, and the
\* controller stays in its mode with the same selected id.
C12_EmptySubmitNoOp ==
  [][ \A f \in FormInputs :
        (~ValidForm(f) /\ HandleSubmit(f))
          => /\ blogs' = blogs
             /\ store' = store
             /\ last'.op = "none"
             /\ editId' = editId
             /\ cancelHidden' = cancelHidden ]_vars

\* an empty submit made in edit mode on an existing entry
C12_Witness ==
  /\ ev.name = "submit" /\ ~ev.ok
  /\ EditMode /\ ~cancelHidden
  /\ HasEntry(blogs, ParseInt(editId))
  /\ last.op = "none"

\* C13: a submit with non-empty title and content dispatches exactly one
\* manager call, update of the selected id in edit mode and add in create
\* mode, and leaves the controller in create mode with the cancel action
\* hidden.
C13_SubmitDispatch ==
  [][ \A f \in FormInputs :
        (ValidForm(f) /\ HandleSubmit(f))
          => /\ IF EditMode
                THEN /\ last'.op = "updateBlog"
                     /\ ToStr(last'.id) = editId
                     /\ Len(blogs') = Len(blogs)
                ELSE /\ last'.op = "addBlog"
                     /\ Len(blogs') = Len(blogs) + 1
             /\ last'.inp.title = f.title.core
             /\ last'.inp.content = f.content.core
             /\ editId' = <<>>
             /\ cancelHidden' ]_vars

\* a submit in edit mode that updated the selected entry and returned to
\* create mode
C13_Witness ==
  /\ ev.name = "submit" /\ ev.ok
  /\ last.op = "updateBlog" /\ last.ret.kind = "blog"
  /\ ~EditMode /\ cancelHidden
  /\ Len(blogs) = 2

\* C14: a declined confirmation leaves the collection, the store, the
\* selected filter and the rendered view unchanged, and no controller step
\* makes the collection shorter except a delete whose confirmation was
\* accepted.
C14_DeleteNeedsConfirm ==
  [][ /\ \A id \in Ids :
           UIDeleteBlog(id, FALSE)
             => /\ blogs' = blogs
                /\ store' = store
                /\ tagFilter' = tagFilter
                /\ view' = view
      /\ (Len(blogs') < Len(blogs)
            => ev'.name = "deleteBlog" /\ ev'.ok
               /\ last'.op = "deleteBlog") ]_vars

\* a declined delete of an existing entry while a tag is selected
C14_Witness ==
  /\ ev.name = "deleteBlog" /\ ~ev.ok
  /\ HasEntry(blogs, ev.id)
  /\ tagFilter = "x"
  /\ Len(view) >= 1

\* C16: after every successful submit and every accepted delete the
\* selected filter is the previously selected tag if that tag is still among
\* the tags of the collection and otherwise the "all" value; in every
\* state the selected filter is "all" or a tag carried by a current entry.
C16_FilterFollowsTags ==
  [][ /\ ((\E f \in FormInputs : ValidForm(f) /\ HandleSubmit(f))
            \/ (\E id \in Ids : UIDeleteBlog(id, TRUE)))
           => tagFilter' = IF tagFilter \in TagsOf(blogs')
                           THEN tagFilter ELSE ""
      /\ (tagFilter' = "" \/ tagFilter' \in TagsOf(blogs')) ]_vars

\* an accepted delete after which the selected tag "y" is still carried
C16_Witness ==
  /\ ev.name = "deleteBlog" /\ ev.ok
  /\ tagFilter = "y"
  /\ Len(blogs) >= 1
  /\ ~HasEntry(blogs, ev.id)

\* C17: after every controller event the rendered list is exactly
\* filterByTag(selected filter) of the current collection, in its order.
C17_ViewConsistent ==
  IF tagFilter = ""
  THEN view = RenderList(blogs)
  ELSE IsSelection(view, RenderList(blogs), LAMBDA v : HasTag(v, tagFilter))

\* a filtered view of one of two entries after an update through the form
C17_Witness ==
  /\ ev.name = "submit" /\ ev.ok
  /\ last.op = "updateBlog" /\ last.ret.kind = "blog"
  /\ tagFilter = "x"
  /\ Len(blogs) = 2
  /\ Len(view) = 1

\* C18: a submit made in edit mode never adds an entry: it leaves the
\* number of entries unchanged, and when the selected id no longer exists it
\* leaves the whole collection and the store unchanged.
C18_EditSubmitNeverAdds ==
  [][ \A f \in FormInputs :
        (EditMode /\ HandleSubmit(f))
          => /\ Len(blogs') = Len(blogs)
             /\ \A id \in Ids :
                  (ToStr(id) = editId /\ ~HasEntry(blogs, id))
                    => blogs' = blogs /\ store' = store ]_vars

\* a submit in edit mode whose entry was deleted after the edit began
C18_Witness ==
  /\ ev.name = "submit" /\ ev.ok /\ ev.id # 0
  /\ last.op = "updateBlog" /\ last.ret.kind = "undefined"
  /\ ~HasEntry(blogs, ev.id)
  /\ Len(blogs) >= 1

\* C19: beginEdit, cancelEdit and a tag filter change never modify the
\* collection or the store; beginEdit(id) switches to edit mode with
\* selected id = id only when an entry with that id exists and otherwise
\* leaves the mode unchanged; cancelEdit leaves the controller in create
\* mode.
C19_EditCancelFilterFrame ==
  [][ /\ \A id \in Ids :
           EditBlog(id)
             => /\ blogs' = blogs /\ store' = store
                /\ IF HasEntry(blogs, id)
                   THEN ParseInt(editId') = id /\ ~cancelHidden'
                   ELSE editId' = editId /\ cancelHidden' = cancelHidden
      /\ CancelClick
           => /\ blogs' = blogs /\ store' = store
              /\ editId' = <<>> /\ cancelHidden'
      /\ \A tag \in {"", "x", "y"} :
           TagFilterChange(tag) => blogs' = blogs /\ store' = store ]_vars

\* beginEdit of an unknown id while another entry is being edited
C19_Witness ==
  /\ ev.name = "editBlog" /\ ~ev.ok
  /\ EditMode /\ ~cancelHidden
  /\ HasEntry(blogs, ParseInt(editId))
  /\ ParseInt(editId) # ev.id

====
